---- MODULE Spec2Model ----
(***************************************************************************)
(* Model of the web chess game: the move-selection engine of               *)
(* src/chess/logic.js (terminalScore, minimax, pickAiMove) and the game    *)
(* state handling of src/App.js (applyMove, tryMove, onSquareClick,        *)
(* doUndo, doReset, choosePromotion, the AI-move effect).                  *)
(*                                                                         *)
(* The rules engine the program imports (chess.js) is an external          *)
(* collaborator.  It is modelled by a reduced chess: a board of 3 files    *)
(* and 4 ranks, kings, pawns and the four promotion pieces, with check,    *)
(* checkmate, stalemate, insufficient material, repetition and the         *)
(* half-move clock.  Squares are numbered 1..12 in the engine's scan       *)
(* order (a4, b4, c4, a3, ..., c1).                                        *)
(*                                                                         *)
(* Scores are integers in units of 1/1000 of a material point, so that the *)
(* 0.35 tie-break scale and the 0.25 random term stay exact.  A value of   *)
(* Math.random() is an integer number of thousandths.                      *)
(***************************************************************************)
EXTENDS Integers, Sequences, FiniteSets, TLC

\* ---------------------------------------------------------------------------
\* Bounds of the model
\* ---------------------------------------------------------------------------
\* longest game (in plies) the application is driven to
MaxPlies == 3

\* deepest position (in plies from the start) the search is called on
MaxSearchPlies == 2

\* greatest depth minimax is called with
MaxDepth == 2

\* longest game (in plies) the search is called at the end of
MaxEndPlies == 4

\* plies below a root move up to which a search without a depth is followed
MaxTreePlies == 1

\* ---------------------------------------------------------------------------
\* The rules engine (chess.js), reduced board
\* ---------------------------------------------------------------------------
Squares == 1..12

FileOf(s) == ((s - 1) % 3) + 1

RankOf(s) == 4 - ((s - 1) \div 3)

SquareAt(f, r) == (4 - r) * 3 + f

NoSquare == 0

None == "-"

Empty == [color |-> None, type |-> None]

Piece(c, t) == [color |-> c, type |-> t]

Other(c) == IF c = "w" THEN "b" ELSE "w"

Abs(x) == IF x < 0 THEN -x ELSE x

Sign(x) == IF x < 0 THEN -1 ELSE IF x > 0 THEN 1 ELSE 0

Max(a, b) == IF a >= b THEN a ELSE b

Min(a, b) == IF a <= b THEN a ELSE b

\* rank direction of a pawn of colour c, and the rank it promotes on
PawnDir(c) == IF c = "w" THEN 1 ELSE -1

LastRank(c) == IF c = "w" THEN 4 ELSE 1

\* the squares strictly between two aligned squares are empty
PathClear(board, from, to) ==
  LET df == FileOf(to) - FileOf(from)
      dr == RankOf(to) - RankOf(from)
      n  == Max(Abs(df), Abs(dr))
  IN  \A k \in 1..(n - 1) :
        board[SquareAt(FileOf(from) + k * Sign(df), RankOf(from) + k * Sign(dr))] = Empty

\* the piece on `from` attacks square `to` (geometry and blocking only)
Attacks(board, from, to) ==
  LET p  == board[from]
      df == FileOf(to) - FileOf(from)
      dr == RankOf(to) - RankOf(from)
      straight == (df = 0) # (dr = 0)
      diagonal == Abs(df) = Abs(dr) /\ df # 0
  IN  CASE p.type = "k" -> Max(Abs(df), Abs(dr)) = 1
        [] p.type = "n" -> {Abs(df), Abs(dr)} = {1, 2}
        [] p.type = "r" -> straight /\ PathClear(board, from, to)
        [] p.type = "b" -> diagonal /\ PathClear(board, from, to)
        [] p.type = "q" -> (straight \/ diagonal) /\ PathClear(board, from, to)
        [] p.type = "p" -> Abs(df) = 1 /\ dr = PawnDir(p.color)
        [] OTHER -> FALSE

\* square s is attacked by some piece of colour c
Attacked(board, s, c) ==
  \E from \in Squares : board[from].color = c /\ Attacks(board, from, s)

KingSquare(board, c) ==
  IF \E s \in Squares : board[s] = Piece(c, "k")
  THEN CHOOSE s \in Squares : board[s] = Piece(c, "k")
  ELSE NoSquare

KingAttacked(board, c) ==
  KingSquare(board, c) # NoSquare /\ Attacked(board, KingSquare(board, c), Other(c))

\* the piece on `from` may go to `to` before the own king's safety is considered
PseudoLegal(board, from, to) ==
  LET p == board[from]
  IN  /\ from # to
      /\ board[to].color # p.color
      /\ IF p.type = "p"
         THEN \/ /\ FileOf(to) = FileOf(from)
                 /\ RankOf(to) = RankOf(from) + PawnDir(p.color)
                 /\ board[to] = Empty
              \/ /\ Attacks(board, from, to)
                 /\ board[to].color = Other(p.color)
         ELSE Attacks(board, from, to)

\* a move object as the engine's verbose move list gives it
MoveObj(board, from, to, promo) ==
  [color |-> board[from].color, from |-> from, to |-> to,
   piece |-> board[from].type, captured |-> board[to].type, promotion |-> promo]

\* the board after move m
BoardAfter(board, m) ==
  [board EXCEPT ![m.from] = Empty,
                ![m.to] = Piece(m.color, IF m.promotion # None THEN m.promotion ELSE m.piece)]

\* BoardBefore that leaves the destination empty: a captured piece is lost
BoardBeforeLosingCapture(board, m) ==
  [board EXCEPT ![m.from] = Piece(m.color, m.piece),
                ![m.to] = Empty]

\* the board before move m was made
BoardBefore(board, m) ==
  [board EXCEPT ![m.from] = Piece(m.color, m.piece),
                ![m.to] = IF m.captured # None THEN Piece(Other(m.color), m.captured)
                          ELSE Empty]

PromotionKinds == <<"q", "r", "b", "n">>

SquareSeq == <<1, 2, 3, 4, 5, 6, 7, 8, 9, 10, 11, 12>>

\* the moves of the piece on `from` to `to`: none, one, or the four promotions
MovesFromTo(board, from, to) ==
  IF ~PseudoLegal(board, from, to) THEN <<>>
  ELSE IF board[from].type = "p" /\ RankOf(to) = LastRank(board[from].color)
       THEN << MoveObj(board, from, to, PromotionKinds[1]),
               MoveObj(board, from, to, PromotionKinds[2]),
               MoveObj(board, from, to, PromotionKinds[3]),
               MoveObj(board, from, to, PromotionKinds[4]) >>
       ELSE << MoveObj(board, from, to, None) >>

\* a game: the board, the side to move, the half-move clock and the history
\* of the moves made (each with the clock it replaced, for undo)
NewGame(board, turn) ==
  [board |-> board, turn |-> turn, halfMoves |-> 0, history |-> <<>>]

\* game.turn()
Turn(game) == game.turn

\* game.get(square)
Get(game, s) == game.board[s]

\* game.moves({ verbose: true }): the legal moves, in scan order
Moves(game) ==
  LET b    == game.board
      own  == SelectSeq(SquareSeq, LAMBDA s : b[s].color = game.turn)
      RECURSIVE To(_, _)
      To(s, t) == IF t > 12 THEN <<>> ELSE MovesFromTo(b, s, t) \o To(s, t + 1)
      RECURSIVE From(_)
      From(i) == IF i > Len(own) THEN <<>> ELSE To(own[i], 1) \o From(i + 1)
      pseudo == From(1)
  IN  SelectSeq(pseudo, LAMBDA m : ~KingAttacked(BoardAfter(b, m), game.turn))

\* game.inCheck()
InCheck(game) == KingAttacked(game.board, game.turn)

\* game.isCheckmate(), given the legal moves of the position
CheckmateAmong(game, moves) == moves = <<>> /\ InCheck(game)

IsCheckmate(game) == CheckmateAmong(game, Moves(game))

\* game.isStalemate(), given the legal moves of the position
StalemateAmong(game, moves) == moves = <<>> /\ ~InCheck(game)

IsStalemate(game) == StalemateAmong(game, Moves(game))

\* colour of a square (for bishops): 0 or 1
SquareColour(s) == (FileOf(s) + RankOf(s)) % 2

\* game.isInsufficientMaterial()
IsInsufficientMaterial(game) ==
  LET b       == game.board
      pieces  == {s \in Squares : b[s] # Empty}
      bishops == {s \in pieces : b[s].type = "b"}
      knights == {s \in pieces : b[s].type = "n"}
  IN  \/ Cardinality(pieces) = 2
      \/ Cardinality(pieces) = 3 /\ Cardinality(bishops) + Cardinality(knights) = 1
      \/ /\ Cardinality(pieces) = Cardinality(bishops) + 2
         /\ bishops # {}
         /\ \A s, t \in bishops : SquareColour(s) = SquareColour(t)

\* game.undo(): take back the last move; nothing happens on an empty history
Undo(game) ==
  IF game.history = <<>> THEN game
  ELSE LET e == game.history[Len(game.history)]
       IN  [board     |-> BoardBefore(game.board, e.move),
            turn      |-> e.move.color,
            halfMoves |-> e.halfMoves,
            history   |-> SubSeq(game.history, 1, Len(game.history) - 1)]

\* the position (board and side to move) repeated: how often it occurred
RECURSIVE Occurrences(_, _, _)
Occurrences(game, board, turn) ==
  (IF game.board = board /\ game.turn = turn THEN 1 ELSE 0)
  + (IF game.history = <<>> THEN 0 ELSE Occurrences(Undo(game), board, turn))

\* game.isThreefoldRepetition()
IsThreefoldRepetition(game) == Occurrences(game, game.board, game.turn) >= 3

\* game.isDraw(): 50-move rule, stalemate, insufficient material, repetition
DrawAmong(game, moves) ==
  \/ game.halfMoves >= 100
  \/ StalemateAmong(game, moves)
  \/ IsInsufficientMaterial(game)
  \/ IsThreefoldRepetition(game)

IsDraw(game) == DrawAmong(game, Moves(game))

\* game.isGameOver()
GameOverAmong(game, moves) == CheckmateAmong(game, moves) \/ DrawAmong(game, moves)

IsGameOver(game) == GameOverAmong(game, Moves(game))

\* the engine's internal make-move of a legal move object
MakeMove(game, m) ==
  [board     |-> BoardAfter(game.board, m),
   turn      |-> Other(game.turn),
   halfMoves |-> IF m.piece = "p" \/ m.captured # None THEN 0 ELSE game.halfMoves + 1,
   history   |-> Append(game.history, [move |-> m, halfMoves |-> game.halfMoves])]

\* game.move({from, to, promotion}): the legal move matching the request, if
\* any; a promotion move matches only the request naming its piece
Matching(game, from, to, promo) ==
  SelectSeq(Moves(game),
            LAMBDA m : m.from = from /\ m.to = to
                       /\ (m.promotion = None \/ m.promotion = promo))

Moved(game, ms, from, to) ==
  IF ms = <<>>
  THEN [ok |-> FALSE, game |-> game, move |-> MoveObj(game.board, from, to, None)]
  ELSE [ok |-> TRUE, game |-> MakeMove(game, ms[1]), move |-> ms[1]]

MoveBy(game, from, to, promo) == Moved(game, Matching(game, from, to, promo), from, to)

\* the notation of move m among the legal moves ms of its position: piece,
\* origin (only when another piece of the same kind can reach the square too,
\* or a pawn captures), capture mark, destination, promotion
SanAmong(ms, m) ==
  LET rivals == SelectSeq(ms, LAMBDA o : o.piece = m.piece /\ o.to = m.to /\ o.from # m.from)
  IN  [piece |-> m.piece,
       from  |-> IF rivals # <<>> \/ (m.piece = "p" /\ m.captured # None) THEN m.from ELSE NoSquare,
       takes |-> m.captured # None,
       to    |-> m.to,
       promotion |-> m.promotion]

San(game, m) == SanAmong(Moves(game), m)

\* the suffix of the notation: "#" for checkmate, "+" for check, else none
SuffixIn(after) ==
  IF InCheck(after) THEN (IF Moves(after) = <<>> THEN "#" ELSE "+") ELSE None

SanSuffix(game, m) == SuffixIn(MakeMove(game, m))

\* the starting position, new Chess(): white king c1 and pawn c3, black king a4
\* and pawn a2 (rank 4 first, files a to c)
StartBoard ==
  << Piece("b", "k"), Empty,            Empty,
     Empty,           Empty,            Piece("w", "p"),
     Piece("b", "p"), Empty,            Empty,
     Empty,           Empty,            Piece("w", "k") >>

createNewGame == NewGame(StartBoard, "w")

\* game.history(): the notation of every move made
RECURSIVE History(_)
HistoryUpTo(prev, m) == Append(History(prev), San(prev, m))

History(game) ==
  IF game.history = <<>> THEN <<>>
  ELSE HistoryUpTo(Undo(game), game.history[Len(game.history)].move)

\* game.pgn(): the record of the game, its moves in notation
Pgn(game) == History(game)

\* next.loadPgn(record) on a new game: replay the record, each token made as
\* the legal move that has this notation; stops at a token no move has
RECURSIVE Replay(_, _)
ReplayToken(game, sans, legal) ==
  LET ms == SelectSeq(legal, LAMBDA m : SanAmong(legal, m) = Head(sans))
  IN  IF ms = <<>> THEN game ELSE Replay(MakeMove(game, ms[1]), Tail(sans))

Replay(game, sans) ==
  IF sans = <<>> THEN game ELSE ReplayToken(game, sans, Moves(game))

LoadPgn(sans) == Replay(createNewGame, sans)

\* ---------------------------------------------------------------------------
\* The move-selection engine (src/chess/logic.js)
\* ---------------------------------------------------------------------------
\* piece values with a queen worth 120,000 points: nine of them pass 1,000,000
PIECE_VALUE_QueenAboveMate ==
  [p |-> 100000, n |-> 320000, b |-> 330000, r |-> 500000, q |-> 120000000, k |-> 0]

\* PIECE_VALUE, in thousandths
PIECE_VALUE ==
  [p |-> 100000, n |-> 320000, b |-> 330000, r |-> 500000, q |-> 900000, k |-> 0]

AI_DIFFICULTY_PRESETS ==
  [easy   |-> [depth |-> 1, randomness |-> 350],
   medium |-> [depth |-> 2, randomness |-> 180],
   hard   |-> [depth |-> 3, randomness |-> 70]]

\* Infinity, beyond every score
Infinity == 2000000000

\* null, as a score
NoScore == 2100000000

\* the depth of a value without a `depth` property (undefined, NaN once 1 is
\* subtracted): never equal to 0
NoDepth == -1

\* the checkmate score, 1,000,000 points
MateScore == 1000000000

\* scoreMoveHeuristic without the bonus of 100 for a mating move
heuristicOfNoMateBonus(m, suffix, r) ==
  (IF m.captured # None THEN 10000 ELSE 0)
  + (IF suffix = "+" THEN 3000 ELSE 0)
  + (IF m.piece # None /\ m.piece # "p" THEN 500 ELSE 0)
  + (r * 25) \div 100

\* scoreMoveHeuristic with a random term of up to 25 points in place of 0.25
heuristicOfWideRandom(m, suffix, r) ==
  (IF m.captured # None THEN 10000 ELSE 0)
  + (IF suffix = "+" THEN 3000 ELSE 0)
  + (IF suffix = "#" THEN 100000 ELSE 0)
  + (IF m.piece # None /\ m.piece # "p" THEN 500 ELSE 0)
  + r * 25

\* scoreMoveHeuristic(move), in thousandths; the notation of the move gives
\* the check and mate marks; r is the value Math.random() gave (in thousandths)
heuristicOf(m, suffix, r) ==
  (IF m.captured # None THEN 10000 ELSE 0)
  + (IF suffix = "+" THEN 3000 ELSE 0)
  + (IF suffix = "#" THEN 100000 ELSE 0)
  + (IF m.piece # None /\ m.piece # "p" THEN 500 ELSE 0)
  + (r * 25) \div 100

scoreMoveHeuristic(game, m, r) == heuristicOf(m, SanSuffix(game, m), r)

evaluateMaterial(game) ==
  LET RECURSIVE Sum(_)
      Sum(s) == IF s > 12 THEN 0
                ELSE (LET p == game.board[s]
                      IN  IF p = Empty THEN 0
                          ELSE IF p.color = "w" THEN PIECE_VALUE[p.type]
                               ELSE -PIECE_VALUE[p.type])
                     + Sum(s + 1)
  IN  Sum(1)

\* terminalScore that takes every checkmate as the perspective colour's loss
terminalAmongMated(game, perspectiveColor, moves) ==
  IF CheckmateAmong(game, moves) THEN -MateScore
  ELSE IF DrawAmong(game, moves) THEN 0 ELSE NoScore

\* terminalScore, given the legal moves of the position
terminalAmong(game, perspectiveColor, moves) ==
  IF CheckmateAmong(game, moves)
  THEN (IF Turn(game) = perspectiveColor THEN -MateScore ELSE MateScore)
  ELSE IF DrawAmong(game, moves) \/ StalemateAmong(game, moves)
          \/ IsThreefoldRepetition(game) \/ IsInsufficientMaterial(game)
       THEN 0
       ELSE NoScore

terminalScore(game, perspectiveColor) ==
  terminalAmong(game, perspectiveColor, Moves(game))

\* the order in which a node's legal moves are enumerated: the engine's own
\* (0), reversed (1), or rotated by one (2); `ord` gives one choice per depth
RECURSIVE Reversed(_)
Reversed(ms) == IF ms = <<>> THEN <<>> ELSE Append(Reversed(Tail(ms)), Head(ms))

Permuted(ms, k) ==
  IF k = 1 THEN Reversed(ms)
  ELSE IF k = 2 /\ ms # <<>> THEN Append(Tail(ms), Head(ms))
  ELSE ms

OrderedMoves(game, ord, depth) ==
  Permuted(Moves(game), IF depth \in DOMAIN ord THEN ord[depth] ELSE 0)

EngineOrder == <<0, 0, 0>>

\* game.move(m) with a move object of the verbose list
GameMove(game, m) == MoveBy(game, m.from, m.to, m.promotion).game

\* what a call of the search gives back: the score, the game object as the
\* call leaves it, and the number of nodes it visited
Searched(value, game, visits) == [value |-> value, game |-> game, visits |-> visits]

RECURSIVE minimax(_, _, _, _, _, _)
RECURSIVE MaxLoop(_, _, _, _, _, _, _, _, _, _)
RECURSIVE MinLoop(_, _, _, _, _, _, _, _, _, _)

\* MaxStep with the pruning test on the running maximum against alpha instead
\* of alpha against beta: a faulty cut-off
MaxStepCutOnAlpha(moves, i, depth, alpha, beta, perspectiveColor, ord, value, visits, child) ==
  LET back == Undo(child.game)
      v    == Max(value, child.value)
      a    == Max(alpha, v)
      n    == visits + child.visits
  IN  IF v >= alpha THEN Searched(v, back, n)
      ELSE MaxLoop(back, moves, i + 1, depth, a, beta, perspectiveColor, ord, v, n)

\* MaxStep with the undo after the pruning test: the break leaves the
\* exploratory move on the game
MaxStepBreakBeforeUndo(moves, i, depth, alpha, beta, perspectiveColor, ord, value, visits, child) ==
  LET back == Undo(child.game)
      v    == Max(value, child.value)
      a    == Max(alpha, v)
      n    == visits + child.visits
  IN  IF a >= beta THEN Searched(v, child.game, n)
      ELSE MaxLoop(back, moves, i + 1, depth, a, beta, perspectiveColor, ord, v, n)

\* one pass of the maximizing loop, after the recursive call on move i has
\* returned `child`: undo, running maximum, alpha, and the pruning test
MaxStep(moves, i, depth, alpha, beta, perspectiveColor, ord, value, visits, child) ==
  LET back == Undo(child.game)
      v    == Max(value, child.value)
      a    == Max(alpha, v)
      n    == visits + child.visits
  IN  IF a >= beta THEN Searched(v, back, n)
      ELSE MaxLoop(back, moves, i + 1, depth, a, beta, perspectiveColor, ord, v, n)

\* the maximizing loop of minimax from move i on: the game is the one object
\* that every exploratory move and undo acts on
MaxLoop(game, moves, i, depth, alpha, beta, perspectiveColor, ord, value, visits) ==
  IF i > Len(moves) THEN Searched(value, game, visits)
  ELSE MaxStep(moves, i, depth, alpha, beta, perspectiveColor, ord, value, visits,
               minimax(GameMove(game, moves[i]), depth - 1, alpha, beta,
                       perspectiveColor, ord))

\* one pass of the minimizing loop, after the recursive call on move i
MinStep(moves, i, depth, alpha, beta, perspectiveColor, ord, value, visits, child) ==
  LET back == Undo(child.game)
      v    == Min(value, child.value)
      b    == Min(beta, v)
      n    == visits + child.visits
  IN  IF alpha >= b THEN Searched(v, back, n)
      ELSE MinLoop(back, moves, i + 1, depth, alpha, b, perspectiveColor, ord, v, n)

\* the minimizing loop of minimax from move i on
MinLoop(game, moves, i, depth, alpha, beta, perspectiveColor, ord, value, visits) ==
  IF i > Len(moves) THEN Searched(value, game, visits)
  ELSE MinStep(moves, i, depth, alpha, beta, perspectiveColor, ord, value, visits,
               minimax(GameMove(game, moves[i]), depth - 1, alpha, beta,
                       perspectiveColor, ord))

\* minimax below the terminal test and the depth test: the loop over `moves`
minimaxOver(game, depth, alpha, beta, perspectiveColor, ord, moves) ==
  IF moves = <<>> THEN Searched(0, game, 1)
  ELSE IF Turn(game) = perspectiveColor
       THEN MaxLoop(game, moves, 1, depth, alpha, beta, perspectiveColor, ord, -Infinity, 1)
       ELSE MinLoop(game, moves, 1, depth, alpha, beta, perspectiveColor, ord, Infinity, 1)

\* minimax with the material of a leaf taken from White's side whatever the
\* perspective colour
minimaxAtWhiteLeaves(game, depth, alpha, beta, perspectiveColor, ord, term) ==
  IF term # NoScore THEN Searched(term, game, 1)
  ELSE IF depth = 0
       THEN Searched(evaluateMaterial(game), game, 1)
       ELSE minimaxOver(game, depth, alpha, beta, perspectiveColor, ord,
                        OrderedMoves(game, ord, depth))

\* minimax once terminalScore has given `term`
minimaxAt(game, depth, alpha, beta, perspectiveColor, ord, term) ==
  IF term # NoScore THEN Searched(term, game, 1)
  ELSE IF depth = 0
       THEN Searched(IF perspectiveColor = "w" THEN evaluateMaterial(game)
                     ELSE -evaluateMaterial(game), game, 1)
       ELSE minimaxOver(game, depth, alpha, beta, perspectiveColor, ord,
                        OrderedMoves(game, ord, depth))

\* minimax(game, depth, alpha, beta, perspectiveColor)
minimax(game, depth, alpha, beta, perspectiveColor, ord) ==
  minimaxAt(game, depth, alpha, beta, perspectiveColor, ord,
            terminalScore(game, perspectiveColor))

\* names AI_DIFFICULTY_PRESETS, an object literal, inherits from
\* Object.prototype (three of them)
ObjectPrototypeKeys == {"constructor", "toString", "__proto__"}

\* what such a name gives: a function or object without the properties of a
\* preset
Inherited == [inherited |-> TRUE]

\* AI_DIFFICULTY_PRESETS[key], for a key that gives a value
presetAt(key) ==
  IF key \in DOMAIN AI_DIFFICULTY_PRESETS THEN AI_DIFFICULTY_PRESETS[key] ELSE Inherited

\* `key && AI_DIFFICULTY_PRESETS[key]`: the key is not empty and the lookup,
\* own property or inherited, gives a truthy value
clampDifficultyKey(key) ==
  IF key # "" /\ key \in (DOMAIN AI_DIFFICULTY_PRESETS) \cup ObjectPrototypeKeys
  THEN key
  ELSE "medium"

\* preset.randomness ?? 0
randomnessOf(preset) == IF "randomness" \in DOMAIN preset THEN preset.randomness ELSE 0

\* the k-th value Math.random() gives, from the sequence `rand` (repeated)
Random(rand, k) == rand[((k - 1) % Len(rand)) + 1]

\* scored.sort((a, b) => b.score - a.score): descending, equal scores keep
\* their order
RECURSIVE SortedInsert(_, _)
SortedInsert(sorted, x) ==
  IF sorted = <<>> THEN << x >>
  ELSE IF Head(sorted).score < x.score THEN << x >> \o sorted
       ELSE << Head(sorted) >> \o SortedInsert(Tail(sorted), x)

\* the candidates left in the order of game.moves
Unsorted(scored) == scored

RECURSIVE SortByScore(_)
SortByScore(scored) ==
  IF scored = <<>> THEN <<>>
  ELSE SortedInsert(SortByScore(SubSeq(scored, 1, Len(scored) - 1)), scored[Len(scored)])

NoMove == [color |-> None, from |-> NoSquare, to |-> NoSquare,
           piece |-> None, captured |-> None, promotion |-> None]

\* one pass of the scoring loop of pickAiMove, after minimax on root move i
\* has returned `mm`: the move, its minimax score and the marks of its notation
\* (the random term of its tie-break is added by Spiced)
RECURSIVE ScoreLoop(_, _, _, _, _, _, _)
ScoreStep(game, moves, i, preset, perspectiveColor, ord, rooted, mm) ==
  ScoreLoop(Undo(mm.game), moves, i + 1, preset, perspectiveColor, ord,
            Append(rooted, [move |-> moves[i], mm |-> mm.value,
                            suffix |-> SanSuffix(game, moves[i])]))

\* the scoring loop of pickAiMove from root move i on
ScoreLoop(game, moves, i, preset, perspectiveColor, ord, rooted) ==
  IF i > Len(moves) THEN [rooted |-> rooted, game |-> game]
  ELSE ScoreStep(game, moves, i, preset, perspectiveColor, ord, rooted,
                 minimax(GameMove(game, moves[i]), preset.depth - 1, -Infinity, Infinity,
                         perspectiveColor, ord))

\* the searched part of pickAiMove, which draws nothing at random: the preset,
\* every root move with its minimax score, and the game object afterwards
\* every line of play from `game` ends in a finished game within n plies
RECURSIVE FinishesWithin(_, _)
FinishesOver(game, n, moves) ==
  \/ GameOverAmong(game, moves)
  \/ /\ n > 0
     /\ \A i \in 1..Len(moves) : FinishesWithin(GameMove(game, moves[i]), n - 1)

FinishesWithin(game, n) == FinishesOver(game, n, Moves(game))

\* the scoring loop under a preset with a depth
rootDepth(game, depth, randomness, ord, moves) ==
  [randomness |-> randomness, depth |-> depth, returned |-> TRUE]
  @@ ScoreLoop(game, moves, 1, [depth |-> depth], Turn(game), ord, <<>>)

\* the scoring loop under a value without a depth: preset.depth - 1 is NaN,
\* `depth === 0` never holds and minimax ends at finished games only.  When
\* every line ends within MaxTreePlies plies of the root moves this is the
\* search of that depth; else the search goes on past the bound and the call
\* is taken as not returned.
rootDepthless(game, randomness, ord, moves) ==
  IF \A i \in 1..Len(moves) : FinishesWithin(GameMove(game, moves[i]), MaxTreePlies)
  THEN [rootDepth(game, MaxTreePlies + 1, randomness, ord, moves) EXCEPT !.depth = NoDepth]
  ELSE [randomness |-> randomness, depth |-> NoDepth, returned |-> FALSE,
        rooted |-> <<>>, game |-> game]

rootWith(game, preset, ord, moves) ==
  IF "depth" \in DOMAIN preset
  THEN rootDepth(game, preset.depth, randomnessOf(preset), ord, moves)
  ELSE rootDepthless(game, randomnessOf(preset), ord, moves)

rootAmong(game, difficulty, ord, moves) ==
  IF moves = <<>>
  THEN [randomness |-> 0, depth |-> 0, returned |-> TRUE, rooted |-> <<>>, game |-> game]
  ELSE rootWith(game, presetAt(clampDifficultyKey(difficulty)), ord, moves)

searchRoot(game, difficulty, ord) ==
  rootAmong(game, difficulty, ord, OrderedMoves(game, ord, 3))

\* scored.push with the heuristic times 35 in place of 0.35
SpicedUnscaled(rand, rooted) ==
  [i \in 1..Len(rooted) |->
     [move  |-> rooted[i].move,
      mm    |-> rooted[i].mm,
      score |-> rooted[i].mm
                + heuristicOf(rooted[i].move, rooted[i].suffix, Random(rand, i)) * 35]]
  \o <<>>

\* scored.push({ move, score: mm + spice }): the i-th root move gets the i-th
\* value of Math.random()
Spiced(rand, rooted) ==
  [i \in 1..Len(rooted) |->
     [move  |-> rooted[i].move,
      mm    |-> rooted[i].mm,
      score |-> rooted[i].mm
                + (heuristicOf(rooted[i].move, rooted[i].suffix, Random(rand, i)) * 35)
                  \div 100]] \o <<>>

\* the end of pickAiMove with the random pick over four places however few
\* the candidates: nothing at a place past the last
pickSortedOverFour(rand, draws, randomness, scored, game) ==
  LET idx == (Random(rand, draws + 2) * 4) \div 1000
  IN  [move   |-> IF Random(rand, draws + 1) < randomness
                  THEN (IF idx + 1 > Len(scored) THEN NoMove ELSE scored[idx + 1].move)
                  ELSE scored[1].move,
       scored |-> scored,
       game   |-> game]

\* the end of pickAiMove: the random pick among the top min(4, n), or the
\* top-scored move
pickSorted(rand, draws, randomness, scored, game) ==
  LET n   == Min(4, Len(scored))
      idx == (Random(rand, draws + 2) * n) \div 1000
  IN  [move   |-> IF Random(rand, draws + 1) < randomness
                  THEN scored[idx + 1].move
                  ELSE scored[1].move,
       scored |-> scored,
       game   |-> game]

\* pickAiMove that leaves the top-scored move made on the game object
pickFromMoveMade(rand, root) ==
  [returned |-> root.returned, depth |-> root.depth, randomness |-> root.randomness]
  @@ (IF root.rooted = <<>>
      THEN [move |-> NoMove, scored |-> <<>>, game |-> root.game]
      ELSE [pickSorted(rand, Len(root.rooted), root.randomness,
                       SortByScore(Spiced(rand, root.rooted)), root.game)
            EXCEPT !.game = GameMove(@, SortByScore(Spiced(rand, root.rooted))[1].move)])

\* pickAiMove after its search: scoring with the random values, sort, pick
pickFrom(rand, root) ==
  [returned |-> root.returned, depth |-> root.depth, randomness |-> root.randomness]
  @@ (IF root.rooted = <<>>
      THEN [move |-> NoMove, scored |-> <<>>, game |-> root.game]
      ELSE pickSorted(rand, Len(root.rooted), root.randomness,
                      SortByScore(Spiced(rand, root.rooted)), root.game))

\* pickAiMove(game, {difficulty}): the move picked (NoMove for null), the
\* sorted candidates, and the game object as the call leaves it
pickAiMove(game, difficulty, rand, ord) ==
  pickFrom(rand, searchRoot(game, difficulty, ord))

\* The depth-bounded minimax without a window: terminalScore at a finished
\* game, the material at depth 0, else the maximum (the perspective colour to
\* move) or minimum over every legal move; with the number of nodes visited.
RECURSIVE UnprunedMinimax(_, _, _)
RECURSIVE UnprunedOver(_, _, _, _, _)
UnprunedBest(maximizing, a, b) ==
  [value  |-> IF maximizing THEN Max(a.value, b.value) ELSE Min(a.value, b.value),
   visits |-> a.visits + b.visits]

UnprunedOver(game, moves, i, depth, perspectiveColor) ==
  IF i > Len(moves)
  THEN [value |-> IF Turn(game) = perspectiveColor THEN -Infinity ELSE Infinity,
        visits |-> 1]
  ELSE UnprunedBest(Turn(game) = perspectiveColor,
                    UnprunedMinimax(MakeMove(game, moves[i]), depth - 1, perspectiveColor),
                    UnprunedOver(game, moves, i + 1, depth, perspectiveColor))

UnprunedAt(game, depth, perspectiveColor, term, moves) ==
  IF term # NoScore THEN [value |-> term, visits |-> 1]
  ELSE IF depth = 0
       THEN [value |-> IF perspectiveColor = "w" THEN evaluateMaterial(game)
                       ELSE -evaluateMaterial(game),
             visits |-> 1]
       ELSE IF moves = <<>> THEN [value |-> 0, visits |-> 1]
       ELSE UnprunedOver(game, moves, 1, depth, perspectiveColor)

UnprunedMinimax(game, depth, perspectiveColor) ==
  UnprunedAt(game, depth, perspectiveColor, terminalScore(game, perspectiveColor),
             Moves(game))

\* ---------------------------------------------------------------------------
\* The application state (src/App.js)
\* ---------------------------------------------------------------------------
VARIABLES
  game,             \* useState: the current game object
  mode,             \* useState: "ai" or "human"
  aiSide,           \* useState: the colour the AI plays
  selected,         \* useState: the selected square, or NoSquare
  pendingPromotion, \* useState: {from, to} awaiting a promotion choice, or NoPending
  lastMove,         \* useState: {from, to} of the last move
  isAiThinking,     \* useState
  gameOver,         \* useMemo: game.isGameOver(), computed when the game object is set
  isMounted,        \* isMountedRef.current
  timers,           \* the pending window.setTimeout callbacks, each with the game it closed over
  cleanup,          \* the timer id the AI effect's current cleanup clears, or 0
  lastOp            \* the last event handled, and whether its handler went past its guards

appVars == <<game, mode, aiSide, selected, pendingPromotion, lastMove,
             isAiThinking, gameOver, isMounted, timers, cleanup, lastOp>>

VARIABLES
  sGame,            \* the position handed to the search
  sRun              \* the last call of the search on sGame, with what it returned

searchVars == <<sGame, sRun>>

vars == <<appVars, searchVars>>

GAME_MODES == [HUMAN |-> "human", AI |-> "ai"]

AI_SIDES == [BLACK |-> "b", WHITE |-> "w"]

NoPending == [from |-> NoSquare, to |-> NoSquare]

\* the handler called, whether it went past its guards (for applyMove: what it
\* returned), and whether an error came out of it
Op(name, ok) == [op |-> name, ok |-> ok, raised |-> FALSE]

Raised(name) == [op |-> name, ok |-> FALSE, raised |-> TRUE]

\* what next.move(...) of the rules engine does with a move that is not legal:
\* it returns null (chess.js up to 1.0.0-alpha) or throws (chess.js 1.x)
EngineRejections == {"null", "throws"}

\* the values Math.random() gives during one selection, in thousandths
RandomTapes ==
  { <<800>>, <<0>>, <<0, 800>>, <<800, 0, 400>>, <<80>>, <<240, 0>> }

\* const isAiTurn = isAiEnabled && game.turn() === aiPlaysColor
isAiTurnOf(g, m, side) == m = GAME_MODES.AI /\ Turn(g) = side

isAiTurn == isAiTurnOf(game, mode, aiSide)

\* the smallest timer id not in use
FreshTimerId(ts) == CHOOSE n \in 1..(Cardinality(ts) + 1) : \A t \in ts : t.id # n

\* the AI-move effect without its cleanup and without setIsAiThinking(true)
AiEffectUnguarded(g, over, aiTurn, thinking, ts, cl) ==
  IF ~aiTurn \/ over
  THEN [timers |-> ts, cleanup |-> 0, isAiThinking |-> thinking]
  ELSE [timers |-> ts \cup {[id |-> FreshTimerId(ts), game |-> g]},
        cleanup |-> FreshTimerId(ts),
        isAiThinking |-> thinking]

\* the AI-move effect that clears the previous timer only when it schedules
\* none, and without setIsAiThinking(true)
AiEffectSchedulingOnTop(g, over, aiTurn, thinking, ts, cl) ==
  IF ~aiTurn \/ over
  THEN [timers |-> {t \in ts : t.id # cl}, cleanup |-> 0, isAiThinking |-> thinking]
  ELSE [timers |-> ts \cup {[id |-> FreshTimerId(ts), game |-> g]},
        cleanup |-> FreshTimerId(ts),
        isAiThinking |-> thinking]

\* the AI-move effect without its return on a game that is over
AiEffectPastGameOver(g, over, aiTurn, thinking, ts, cl) ==
  LET cleared == {t \in ts : t.id # cl}
  IN  IF ~aiTurn
      THEN [timers |-> cleared, cleanup |-> 0, isAiThinking |-> thinking]
      ELSE [timers |-> cleared \cup {[id |-> FreshTimerId(cleared), game |-> g]},
            cleanup |-> FreshTimerId(cleared),
            isAiThinking |-> TRUE]

\* The AI-move effect, run after a render in which game, gameOver or isAiTurn
\* changed: the previous run's cleanup clears its timer; then, on the AI's
\* turn (aiTurn) in a game not over, isAiThinking is set and a timer is
\* scheduled.  Gives the timers, the cleanup and isAiThinking after the effect.
AiEffect(g, over, aiTurn, thinking, ts, cl) ==
  LET cleared == {t \in ts : t.id # cl}
  IN  IF ~aiTurn \/ over
      THEN [timers |-> cleared, cleanup |-> 0, isAiThinking |-> thinking]
      ELSE [timers |-> cleared \cup {[id |-> FreshTimerId(cleared), game |-> g]},
            cleanup |-> FreshTimerId(cleared),
            isAiThinking |-> TRUE]

\* what a handler sets: every state value after its setters ran (gameSet: a
\* game object was set), and the event with whether the handler went past
\* its guards
Kept(op) ==
  [game |-> game, gameSet |-> FALSE, mode |-> mode, aiSide |-> aiSide,
   selected |-> selected, pendingPromotion |-> pendingPromotion, lastMove |-> lastMove,
   isAiThinking |-> isAiThinking, timers |-> timers, op |-> op]

\* the state after a move was made: applyMove's setters, and the AI timer's
Played(r, thinking, ts, op) ==
  [game |-> r.game, gameSet |-> TRUE, mode |-> mode, aiSide |-> aiSide,
   selected |-> NoSquare, pendingPromotion |-> NoPending,
   lastMove |-> [from |-> r.move.from, to |-> r.move.to],
   isAiThinking |-> thinking, timers |-> ts, op |-> op]

\* doUndo's or doReset's setters without setSelected(null)
RewoundKeepingSelection(g, op) ==
  [game |-> g, gameSet |-> TRUE, mode |-> mode, aiSide |-> aiSide,
   selected |-> selected, pendingPromotion |-> NoPending, lastMove |-> NoPending,
   isAiThinking |-> isAiThinking, timers |-> timers, op |-> op]

\* the state after doUndo's or doReset's setters
Rewound(g, op) ==
  [game |-> g, gameSet |-> TRUE, mode |-> mode, aiSide |-> aiSide,
   selected |-> NoSquare, pendingPromotion |-> NoPending, lastMove |-> NoPending,
   isAiThinking |-> isAiThinking, timers |-> timers, op |-> op]

\* The effects that run after the render of the state `o` a handler has set:
\* the AI-move effect when game, gameOver or isAiTurn changed (a game object
\* set anew always counts as changed), the mode/aiSide effect when these
\* changed.
Effects(o, over, eff) ==
  /\ game' = o.game
  /\ gameOver' = over
  /\ mode' = o.mode
  /\ aiSide' = o.aiSide
  /\ selected' = IF o.mode # mode \/ o.aiSide # aiSide THEN NoSquare ELSE o.selected
  /\ pendingPromotion' = IF o.mode # mode \/ o.aiSide # aiSide THEN NoPending
                         ELSE o.pendingPromotion
  /\ lastMove' = o.lastMove
  /\ isAiThinking' = eff.isAiThinking
  /\ timers' = eff.timers
  /\ cleanup' = eff.cleanup
  /\ isMounted' = isMounted
  /\ lastOp' = o.op
  /\ UNCHANGED searchVars

Render(o) ==
  \E over \in {IF o.gameSet THEN IsGameOver(o.game) ELSE gameOver} :
  \E eff \in {IF o.gameSet \/ over # gameOver
                 \/ isAiTurnOf(o.game, o.mode, o.aiSide) # isAiTurn
              THEN AiEffect(o.game, over, isAiTurnOf(o.game, o.mode, o.aiSide),
                            o.isAiThinking, o.timers, cleanup)
              ELSE [timers |-> o.timers, cleanup |-> cleanup,
                    isAiThinking |-> o.isAiThinking]} :
    Effects(o, over, eff)

\* applyMove(moveObj): the move made on a copy of the game
applyMove(from, to, promo) == MoveBy(LoadPgn(Pgn(game)), from, to, promo)

\* what applyMove sets
Applied(r, op) ==
  IF r.ok THEN Played(r, isAiThinking, timers, Op(op, TRUE))
  ELSE Kept(Op(op, FALSE))

\* applyMove on an engine that rejects in the way `rejection`: an error thrown
\* by next.move leaves applyMove before any setter
AppliedOr(r, op, rejection) ==
  IF ~r.ok /\ rejection = "throws" THEN Kept(Raised(op)) ELSE Applied(r, op)

\* tryMove that makes the first legal move of the pair at once, promotion
\* or not
tryMoveAtOnce(from, to, moves) ==
  IF moves = <<>> THEN [Kept(Op("click", TRUE)) EXCEPT !.selected = NoSquare]
  ELSE Applied(applyMove(from, to, moves[1].promotion), "move")

\* tryMove(from, to), given the legal moves of the pair
tryMove(from, to, moves) ==
  IF moves = <<>> THEN [Kept(Op("click", TRUE)) EXCEPT !.selected = NoSquare]
  ELSE IF Len(moves) > 1 \/ moves[1].promotion # None
       THEN [Kept(Op("click", TRUE)) EXCEPT !.pendingPromotion = [from |-> from, to |-> to]]
       ELSE Applied(applyMove(from, to, None), "move")

\* onSquareClick(square) past its guards, p being the piece on the square
clicked(square, p) ==
  IF selected = NoSquare
  THEN IF p = Empty \/ p.color # Turn(game)
       THEN Kept(Op("click", TRUE))
       ELSE [Kept(Op("click", TRUE)) EXCEPT !.selected = square]
  ELSE IF square = selected
  THEN [Kept(Op("click", TRUE)) EXCEPT !.selected = NoSquare]
  ELSE IF p # Empty /\ p.color = Turn(game)
  THEN [Kept(Op("click", TRUE)) EXCEPT !.selected = square]
  ELSE tryMove(selected, square,
               SelectSeq(Moves(game), LAMBDA m : m.from = selected /\ m.to = square))

\* onSquareClick without the return on a pending promotion
onSquareClickWhilePending(square) ==
  /\ isMounted
  /\ \E o \in {IF gameOver \/ isAiTurn \/ isAiThinking
               THEN Kept(Op("click", FALSE))
               ELSE clicked(square, Get(game, square))} :
       /\ o.op.op = "move" => Len(game.history) < MaxPlies
       /\ Render(o)

\* onSquareClick(square)
onSquareClick(square) ==
  /\ isMounted
  /\ \E o \in {IF gameOver \/ isAiTurn \/ isAiThinking \/ pendingPromotion # NoPending
               THEN Kept(Op("click", FALSE))
               ELSE clicked(square, Get(game, square))} :
       /\ o.op.op = "move" => Len(game.history) < MaxPlies
       /\ Render(o)

\* choosePromotion(promotion), from the promotion dialog
choosePromotion(promotion) ==
  /\ isMounted
  /\ pendingPromotion # NoPending
  /\ Len(game.history) < MaxPlies
  /\ \E o \in {Applied(applyMove(pendingPromotion.from, pendingPromotion.to, promotion),
                       "promote")} :
       Render(o)

\* doUndo(), from the Undo button (disabled on an empty history and while the
\* AI is thinking)
\* doUndo taking back one ply in either mode
undoneOnePly(next) == Undo(next)

\* next.undo(), twice in AI mode
undone(next) == IF mode = GAME_MODES.AI THEN Undo(Undo(next)) ELSE Undo(next)

\* doUndo without its return while the AI is thinking
doUndoWhileThinking ==
  /\ isMounted
  /\ \E o \in {IF game.history = <<>>
               THEN Kept(Op("undo", FALSE))
               ELSE Rewound(undone(LoadPgn(Pgn(game))), Op("undo", TRUE))} :
       Render(o)

doUndo ==
  /\ isMounted
  /\ \E o \in {IF game.history = <<>> \/ isAiThinking
               THEN Kept(Op("undo", FALSE))
               ELSE Rewound(undone(LoadPgn(Pgn(game))), Op("undo", TRUE))} :
       Render(o)

\* doReset(), from the Reset button (disabled while the AI is thinking)
doReset ==
  /\ isMounted
  /\ \E o \in {IF isAiThinking
               THEN Kept(Op("reset", FALSE))
               ELSE Rewound(createNewGame, Op("reset", TRUE))} :
       Render(o)

\* the game-mode select left enabled while the AI is thinking
setModeWhileThinking(m) ==
  /\ isMounted
  /\ m # mode
  /\ Len(game.history) < MaxPlies
  /\ \E o \in {[Kept(Op("setMode", TRUE)) EXCEPT !.mode = m]} :
       Render(o)

\* the game-mode select (disabled while the AI is thinking)
setMode(m) ==
  /\ isMounted
  /\ m # mode
  /\ Len(game.history) < MaxPlies
  /\ \E o \in {IF isAiThinking
               THEN Kept(Op("setMode", FALSE))
               ELSE [Kept(Op("setMode", TRUE)) EXCEPT !.mode = m]} :
       Render(o)

\* the AI-side select (disabled in two-player mode and while the AI is thinking)
setAiSide(side) ==
  /\ isMounted
  /\ side # aiSide
  /\ Len(game.history) < MaxPlies
  /\ \E o \in {IF mode # GAME_MODES.AI \/ isAiThinking
               THEN Kept(Op("setAiSide", FALSE))
               ELSE [Kept(Op("setAiSide", TRUE)) EXCEPT !.aiSide = side]} :
       Render(o)

\* the end of the timer callback without the setIsAiThinking(false) of its
\* finally block
aiMovedStillThinking(pick, moved, rest) ==
  IF pick.move = NoMove \/ ~moved.ok \/ ~isMounted
  THEN [Kept(Op("ai", FALSE)) EXCEPT !.timers = rest]
  ELSE Played(moved, isAiThinking, rest, Op("ai", TRUE))

\* the end of the timer callback, once pickAiMove has returned `pick`: the
\* move made on the copy, the setters if still mounted, and finally
\* setIsAiThinking(false) if still mounted
aiMoved(pick, moved, rest) ==
  IF pick.move = NoMove \/ ~moved.ok \/ ~isMounted
  THEN [Kept(Op("ai", FALSE)) EXCEPT !.isAiThinking = IF isMounted THEN FALSE ELSE @,
                                     !.timers = rest]
  ELSE Played(moved, FALSE, rest, Op("ai", TRUE))

aiPicked(pick, rest) ==
  aiMoved(pick, MoveBy(pick.game, pick.move.from, pick.move.to, pick.move.promotion), rest)

\* the callback of a pending timer of the AI-move effect: pickAiMove(next) on a
\* copy of the game the timer closed over (`root` is its search, rand what
\* Math.random() gives during the selection), then the move and the setters
aiTimeout(t, root, rand) ==
  \E o \in {aiPicked(pickFrom(rand, root), timers \ {t})} :
    Render(o)

\* the component unmounts: the mounted flag is cleared and the AI-move effect's
\* cleanup clears its timer
unmount ==
  /\ isMounted
  /\ isMounted' = FALSE
  /\ timers' = {t \in timers : t.id # cleanup}
  /\ cleanup' = 0
  /\ lastOp' = Op("unmount", TRUE)
  /\ UNCHANGED <<game, mode, aiSide, selected, pendingPromotion, lastMove, isAiThinking,
                 gameOver>>
  /\ UNCHANGED searchVars

\* applyMove(moveObj) called with any move object, legal or not; r is what
\* next.move made of it
requestMove(r, rejection) ==
  /\ isMounted
  /\ \E o \in {AppliedOr(r, "apply", rejection)} :
       /\ o.op.ok => Len(game.history) < MaxPlies
       /\ Render(o)

AppInit ==
  /\ game = createNewGame
  /\ mode = GAME_MODES.AI
  /\ aiSide = AI_SIDES.BLACK
  /\ selected = NoSquare
  /\ pendingPromotion = NoPending
  /\ lastMove = NoPending
  /\ isAiThinking = FALSE
  /\ gameOver = IsGameOver(createNewGame)
  /\ isMounted = TRUE
  /\ timers = {}
  /\ cleanup = 0
  /\ lastOp = Op("init", TRUE)

\* no call of the search made on sGame yet
NoRun ==
  [kind |-> "none", before |-> createNewGame, depth |-> 0, pc |-> "w",
   ord |-> EngineOrder, difficulty |-> "", rand |-> <<0>>, randomness |-> 0,
   again |-> NoMove, againRand |-> <<0>>,
   value |-> 0, mirror |-> 0, visits |-> 0, move |-> NoMove, scored |-> <<>>]

SearchIdle ==
  /\ sGame = createNewGame
  /\ sRun = NoRun

Init == AppInit /\ SearchIdle

Click == \E square \in Squares : onSquareClick(square)

Promote == \E i \in 1..4 : choosePromotion(PromotionKinds[i])

SwitchMode == \E m \in {GAME_MODES.HUMAN, GAME_MODES.AI} : setMode(m)

SwitchAiSide == \E side \in {AI_SIDES.BLACK, AI_SIDES.WHITE} : setAiSide(side)

AiMoves ==
  \E t \in timers :
    \E root \in {searchRoot(LoadPgn(Pgn(t.game)), "", EngineOrder)} :
      \E rand \in RandomTapes : aiTimeout(t, root, rand)

Next ==
  \/ Click
  \/ Promote
  \/ doUndo
  \/ doReset
  \/ SwitchMode
  \/ SwitchAiSide
  \/ AiMoves
  \/ unmount

Spec == Init /\ [][Next]_vars

\* a timer is pending and the step is one of its callback: of the steps of
\* Next, the AiMoves steps are those that end with the event "ai" (each of
\* them changes lastOp), and one is possible whenever a timer is pending
TimerFires ==
  /\ timers # {}
  /\ lastOp' \in {Op("ai", TRUE), Op("ai", FALSE)}

\* window.setTimeout(..., 450): the callback of a timer that stays pending is
\* run
FairSpec == Spec /\ WF_lastOp(TimerFires)

\* Board clicks, promotion choices, mode switches, and applyMove also called
\* directly, from the selected square to any square
Request ==
  /\ selected # NoSquare
  /\ \E to \in Squares :
       \E r \in {applyMove(selected, to, None)} :
         \E rejection \in EngineRejections : requestMove(r, rejection)

RequestNext ==
  \/ Click
  \/ Promote
  \/ SwitchMode
  \/ Request

RequestSpec == Init /\ [][RequestNext]_vars



\* ---------------------------------------------------------------------------
\* The engine called on its own: positions reached by legal moves, then one
\* call of minimax or of pickAiMove on the game object
\* ---------------------------------------------------------------------------
\* move orderings: the same at every depth, and each depth its own
UniformOrders == {<<0, 0, 0>>, <<1, 1, 1>>, <<2, 2, 2>>}

Orders == UniformOrders \cup {<<0, 1, 2>>, <<1, 2, 0>>, <<2, 0, 1>>}

\* the orderings of a search of depth d (the engine's own above d)
OrdersUpTo(d) ==
  {<<IF d >= 1 THEN o[1] ELSE 0, IF d >= 2 THEN o[2] ELSE 0, IF d >= 3 THEN o[3] ELSE 0>> :
     o \in Orders}

Difficulties == {"easy", "medium", "hard", "", "grandmaster", "constructor"}

\* the three presets and an inherited name
EndDifficulties == {"easy", "medium", "hard", "constructor"}

\* a legal move is made on the position
SPlay ==
  /\ Len(sGame.history) < MaxSearchPlies
  /\ \E ms \in {Moves(sGame)} :
       \E i \in 1..Len(ms) : sGame' = MakeMove(sGame, ms[i])
  /\ sRun' = NoRun
  /\ UNCHANGED appVars

\* minimax(game, depth, -Infinity, Infinity, perspectiveColor)
SMinimaxReturned(depth, pc, ord, r) ==
  /\ sGame' = r.game
  /\ sRun' = [NoRun EXCEPT !.kind = "minimax", !.before = sGame, !.depth = depth,
                           !.pc = pc, !.ord = ord, !.value = r.value,
                           !.visits = r.visits]
  /\ UNCHANGED appVars

SMinimax ==
  /\ sRun = NoRun
  /\ \E depth \in 0..MaxDepth : \E pc \in {"w", "b"} : \E ord \in OrdersUpTo(depth) :
       \E r \in {minimax(sGame, depth, -Infinity, Infinity, pc, ord)} :
         SMinimaxReturned(depth, pc, ord, r)

\* pickAiMove(game, {difficulty})
SPickReturned(difficulty, rand, ord, r) ==
  /\ sGame' = r.game
  /\ sRun' = [NoRun EXCEPT !.kind = IF r.returned THEN "pick" ELSE "searching",
                           !.before = sGame, !.difficulty = difficulty,
                           !.depth = r.depth, !.randomness = r.randomness,
                           !.rand = rand, !.ord = ord, !.move = r.move,
                           !.scored = r.scored]
  /\ UNCHANGED appVars

SPick ==
  /\ sRun = NoRun
  /\ \E difficulty \in Difficulties : \E ord \in UniformOrders :
       \E root \in {searchRoot(sGame, difficulty, ord)} :
         \E rand \in RandomTapes :
           \E r \in {pickFrom(rand, root)} : SPickReturned(difficulty, rand, ord, r)

SearchNext ==
  \/ SPlay
  \/ SMinimax
  \/ SPick

SearchSpec == Init /\ [][SearchNext]_vars

\* ---------------------------------------------------------------------------
\* The engine called on longer games, finished ones among them (checkmate,
\* stalemate, bare kings): terminalScore on every position, minimax and
\* pickAiMove under the engine's own move order
\* ---------------------------------------------------------------------------
EndPlay ==
  /\ sRun = NoRun
  /\ Len(sGame.history) < MaxEndPlies
  /\ \E ms \in {Moves(sGame)} :
       \E i \in 1..Len(ms) : sGame' = MakeMove(sGame, ms[i])
  /\ sRun' = NoRun
  /\ UNCHANGED appVars

\* terminalScore(game, perspectiveColor)
EndTerminalScore ==
  /\ sRun = NoRun
  /\ \E pc \in {"w", "b"} :
       sRun' = [NoRun EXCEPT !.kind = "terminal", !.before = sGame, !.pc = pc,
                             !.value = terminalScore(sGame, pc)]
  /\ UNCHANGED << sGame, appVars >>

\* minimax(game, depth, -Infinity, Infinity, perspectiveColor) on a finished game
EndMinimax ==
  /\ sRun = NoRun
  /\ \E ms \in {Moves(sGame)} :
       /\ GameOverAmong(sGame, ms)
       /\ \E depth \in 0..MaxDepth : \E pc \in {"w", "b"} :
            \E r \in {minimaxAt(sGame, depth, -Infinity, Infinity, pc, EngineOrder,
                                 terminalAmong(sGame, pc, ms))} :
              SMinimaxReturned(depth, pc, EngineOrder, r)

\* pickAiMove(game, {difficulty}) with the random values of `rand`
EndPick ==
  /\ sRun = NoRun
  /\ \E difficulty \in EndDifficulties :
       \E root \in {searchRoot(sGame, difficulty, EngineOrder)} :
         \E rand \in RandomTapes :
           \E r \in {pickFrom(rand, root)} :
             SPickReturned(difficulty, rand, EngineOrder, r)

EndNext ==
  \/ EndPlay
  \/ EndTerminalScore
  \/ EndMinimax
  \/ EndPick

EndSpec == Init /\ [][EndNext]_vars

\* ---------------------------------------------------------------------------
\* pickAiMove invoked twice in a row on the same game object with the same
\* difficulty; `rand` and `again` are what Math.random() gives during the
\* first and during the second invocation
\* ---------------------------------------------------------------------------
\* the second invocation, on the object as the first one left it (`rested` is
\* its search when the object is as the first search left it)
pickedAgain(first, difficulty, again, rested) ==
  pickFrom(again, IF first.game = rested.before THEN rested.root
                  ELSE searchRoot(first.game, difficulty, EngineOrder))

SPickTwiceReturned(difficulty, rand, again, first, second) ==
  /\ first.returned /\ second.returned
  /\ sGame' = second.game
  /\ sRun' = [NoRun EXCEPT !.kind = "twice", !.before = sGame,
                           !.difficulty = difficulty, !.depth = first.depth,
                           !.randomness = first.randomness, !.rand = rand,
                           !.move = first.move, !.scored = first.scored,
                           !.again = second.move, !.againRand = again]
  /\ UNCHANGED appVars

SPickTwice ==
  /\ sRun = NoRun
  /\ \E difficulty \in Difficulties :
       \E root \in {searchRoot(sGame, difficulty, EngineOrder)} :
         \E rested \in {[before |-> root.game,
                         root |-> searchRoot(root.game, difficulty, EngineOrder)]} :
           \E rand \in RandomTapes : \E again \in RandomTapes :
             \E first \in {pickFrom(rand, root)} :
               SPickTwiceReturned(difficulty, rand, again, first,
                                  pickedAgain(first, difficulty, again, rested))

TwiceNext ==
  \/ SPlay
  \/ SPickTwice

TwiceSpec == Init /\ [][TwiceNext]_vars

\* ---------------------------------------------------------------------------
\* minimax called on one position with the full window from White's and then
\* from Black's perspective (on the game object as the first call left it)
\* ---------------------------------------------------------------------------
SMinimaxBothReturned(depth, ord, white, black) ==
  /\ sGame' = black.game
  /\ sRun' = [NoRun EXCEPT !.kind = "both", !.before = sGame, !.depth = depth,
                           !.ord = ord, !.value = white.value,
                           !.mirror = black.value,
                           !.visits = white.visits + black.visits]
  /\ UNCHANGED appVars

SMinimaxBoth ==
  /\ sRun = NoRun
  /\ \E depth \in 0..MaxDepth : \E ord \in OrdersUpTo(depth) :
       \E white \in {minimax(sGame, depth, -Infinity, Infinity, "w", ord)} :
         SMinimaxBothReturned(depth, ord, white,
                              minimax(white.game, depth, -Infinity, Infinity, "b", ord))

PerspectiveNext ==
  \/ SPlay
  \/ SMinimaxBoth

PerspectiveSpec == Init /\ [][PerspectiveNext]_vars

\* ---------------------------------------------------------------------------
\* Properties of the search
\* ---------------------------------------------------------------------------
\* C1: called with the full window (-Infinity, Infinity), minimax returns the
\* score of the unpruned depth-bounded minimax, for every position, every
\* depth >= 0, both perspective colours and every ordering of the moves.
C1_PrunedEqualsUnpruned ==
  sRun.kind = "minimax"
    => sRun.value = UnprunedMinimax(sRun.before, sRun.depth, sRun.pc).value

\* a call under an ordering other than the engine's in which the window cut
\* branches off: fewer nodes visited than the unpruned search visits
C1_Witness ==
  /\ sRun.kind = "minimax"
  /\ sRun.ord # EngineOrder
  /\ sRun.visits < UnprunedMinimax(sRun.before, sRun.depth, sRun.pc).visits

\* C2: a call of minimax or of pickAiMove leaves the game object as it found
\* it (board, side to move, clock, history), also when a loop ended on the
\* pruning break.
C2_SearchLeavesPosition ==
  sRun.kind # "none" => sGame = sRun.before

\* a call of minimax to the greatest depth on a position with moves made, in
\* which loops ended on the pruning break (fewer nodes visited than without
\* the window), after which the game object is as before
C2_Witness ==
  /\ sRun.kind = "minimax"
  /\ sRun.before.history # <<>>
  /\ sRun.depth = MaxDepth
  /\ sRun.visits < UnprunedMinimax(sRun.before, sRun.depth, sRun.pc).visits
  /\ sGame = sRun.before

\* the score the contract of terminalScore gives a position: checkmate first,
\* then the draws, else none; 1,000,000 points are 1,000,000,000 thousandths
ContractScore(g, pc) ==
  IF IsCheckmate(g) THEN (IF Turn(g) = pc THEN -1000000 * 1000 ELSE 1000000 * 1000)
  ELSE IF IsDraw(g) \/ IsStalemate(g) \/ IsThreefoldRepetition(g)
          \/ IsInsufficientMaterial(g)
       THEN 0
       ELSE NoScore

BranchTaken ==
  Random(sRun.rand, Len(sRun.scored) + 1) < sRun.randomness

\* move m of position g delivers checkmate
Mates(g, m) == IsCheckmate(MakeMove(g, m))

\* some legal move among ms delivers checkmate
SomeMates(g, ms) == \E i \in 1..Len(ms) : Mates(g, ms[i])

\* C13: on a position with a root move that delivers checkmate, pickAiMove
\* at easy, medium and hard returns a move that delivers checkmate whenever
\* the random top-N branch is not taken, also when other root moves reach
\* the score +1,000,000 deeper in the tree.
C13_MateInOneIsPlayed ==
  ( /\ sRun.kind = "pick"
    /\ sRun.difficulty \in {"easy", "medium", "hard"}
    /\ ~BranchTaken
    /\ SomeMates(sRun.before, Moves(sRun.before)) )
  => /\ sRun.move # NoMove
     /\ Mates(sRun.before, sRun.move)

\* at hard the mating move is returned while another root move, not mating
\* at once, also has the minimax score +1,000,000
C13_Witness ==
  /\ sRun.kind = "pick"
  /\ sRun.difficulty = "hard"
  /\ ~BranchTaken
  /\ Mates(sRun.before, sRun.move)
  /\ \E i \in 1..Len(sRun.scored) :
       /\ sRun.scored[i].mm = MateScore
       /\ ~Mates(sRun.before, sRun.scored[i].move)

\* C14: called on a position with legal moves with a difficulty that is not
\* one of easy, medium, hard - absent or empty, or any other string -
\* pickAiMove returns, having searched with the medium preset: depth 2 and
\* randomness 0.18.
C14_UnknownKeyIsMedium ==
  ( /\ sRun.kind \in {"pick", "searching"}
    /\ sRun.difficulty \notin {"easy", "medium", "hard"}
    /\ (sRun.kind = "pick" => sRun.move # NoMove) )
  => /\ sRun.kind = "pick"
     /\ sRun.depth = 2
     /\ sRun.randomness = 180

\* m is one of the legal moves ms
IsOneOf(m, ms) == \E i \in 1..Len(ms) : ms[i] = m

\* what pickAiMove may return on a position with the legal moves ms
NullOrLegal(m, ms) ==
  /\ (m = NoMove) <=> (ms = <<>>)
  /\ m # NoMove => IsOneOf(m, ms)

\* C15: a call of pickAiMove returns null exactly when the position has no
\* legal moves, and otherwise one of the legal moves of that position.
C15_NullOrLegalMove ==
  sRun.kind = "pick" => NullOrLegal(sRun.move, Moves(sRun.before))

\* pickAiMove called on a checkmate: null returned
C15_Witness ==
  /\ sRun.kind = "pick"
  /\ IsCheckmate(sRun.before)
  /\ sRun.move = NoMove

\* the candidates are in descending order of their combined score
Descending(scored) ==
  \A i \in 1..Len(scored) - 1 : scored[i].score >= scored[i + 1].score

\* the place (from 0) the second draw r, in thousandths, gives among the
\* first min(4, n) of n candidates
TopIndex(r, n) == (r * Min(4, n)) \div 1000

\* C16: the candidates are sorted by combined score, descending; when the
\* randomness draw is below the preset's randomness the move returned is the
\* one the second draw indexes among the first min(4, n) of them, and
\* otherwise it is the first.
C16_TopFourOrBest ==
  (sRun.kind = "pick" /\ sRun.scored # <<>>)
  => /\ Descending(sRun.scored)
     /\ TopIndex(Random(sRun.rand, Len(sRun.scored) + 2), Len(sRun.scored))
          \in 0..(Min(4, Len(sRun.scored)) - 1)
     /\ sRun.move =
          IF BranchTaken
          THEN sRun.scored[TopIndex(Random(sRun.rand, Len(sRun.scored) + 2),
                                    Len(sRun.scored)) + 1].move
          ELSE sRun.scored[1].move

\* the branch taken with more than four candidates: the fourth is returned,
\* a move scored below the first
C16_Witness ==
  /\ sRun.kind = "pick"
  /\ Len(sRun.scored) > 4
  /\ BranchTaken
  /\ sRun.move = sRun.scored[4].move
  /\ sRun.scored[4].score < sRun.scored[1].score

BranchTakenAgain ==
  Random(sRun.againRand, Len(sRun.scored) + 1) < sRun.randomness

\* the combined score of candidate e of position g without its random term:
\* minimax score plus 0.35 times the bonuses
SteadyScore(g, e) ==
  e.mm + (heuristicOf(e.move, SanSuffix(g, e.move), 0) * 35) \div 100

\* the steady score of move m among the candidates
SteadyScoreOf(g, scored, m) ==
  SteadyScore(g, scored[CHOOSE i \in 1..Len(scored) : scored[i].move = m])

\* the most the random term adds to a combined score: 0.35 x 0.25, short of
\* 0.0875 points
RandomTermCeiling == (250 * 35) \div 100

\* C18 as stated: when the randomness branch is not taken, the move returned
\* is a function of the position and the difficulty only - two invocations
\* return the same move whatever the random values.
C18_BestMoveUsesNoRandom ==
  (sRun.kind = "twice" /\ ~BranchTaken /\ ~BranchTakenAgain)
  => sRun.again = sRun.move

\* C18, amended: when the randomness branch is not taken the move returned
\* is the first of the candidates sorted by combined score, and of two
\* invocations on the same position and difficulty the moves returned have
\* the same minimax score plus bonuses up to the random term of the
\* tie-break (below 0.0875 points): the random values decide among
\* candidates that close, and among no others.
C18_RandomOnlyAmongNearTies ==
  (sRun.kind = "twice" /\ ~BranchTaken /\ ~BranchTakenAgain /\ sRun.scored # <<>>)
  => /\ sRun.move = sRun.scored[1].move
     /\ Abs(SteadyScoreOf(sRun.before, sRun.scored, sRun.move)
            - SteadyScoreOf(sRun.before, sRun.scored, sRun.again))
          <= RandomTermCeiling

\* two invocations that did not take the randomness branch and returned
\* different moves, equal in minimax score and bonuses
C18_Witness ==
  /\ sRun.kind = "twice"
  /\ ~BranchTaken /\ ~BranchTakenAgain
  /\ sRun.again # sRun.move
  /\ SteadyScoreOf(sRun.before, sRun.scored, sRun.move)
       = SteadyScoreOf(sRun.before, sRun.scored, sRun.again)

\* the scaled ceiling of the tie-break, 0.35 x (10 + 3 + 100 + 0.5 + 0.25) =
\* 39.8125 points, in whole thousandths
TieBreakCeiling == (35 * (10000 + 3000 + 100000 + 500 + 250)) \div 100

\* among the candidates, a minimax score higher by more than the ceiling
\* gives the higher combined score
AdvantageKept(scored) ==
  \A i, j \in 1..Len(scored) :
    scored[i].mm - scored[j].mm > TieBreakCeiling => scored[i].score > scored[j].score

\* C19: of two root moves whose minimax scores differ by more than the
\* scaled tie-break ceiling the one with the higher minimax score has the
\* higher combined score; so when the random top-N branch is not taken no
\* root move has a minimax score above that of the move returned by more
\* than the ceiling - a capture of a free queen, ahead of every other root
\* move by more than that, is the move returned at every preset.
C19_MinimaxAdvantageKept ==
  (sRun.kind = "pick" /\ sRun.scored # <<>>)
  => /\ AdvantageKept(sRun.scored)
     /\ ~BranchTaken
          => \A j \in 1..Len(sRun.scored) :
               /\ sRun.scored[j].mm - sRun.scored[1].mm <= TieBreakCeiling
               /\ sRun.move = sRun.scored[1].move

\* at hard, the branch not taken: the move returned captures a queen and is
\* ahead of the next candidate by more than the ceiling in minimax score
C19_Witness ==
  /\ sRun.kind = "pick"
  /\ sRun.difficulty = "hard"
  /\ ~BranchTaken
  /\ Len(sRun.scored) > 1
  /\ sRun.move.captured = "q"
  /\ sRun.scored[1].mm - sRun.scored[2].mm > TieBreakCeiling

\* a score is a checkmate score or lies strictly between the two
MateOrBelow(v) == v \in {MateScore, -MateScore} \/ Abs(v) < MateScore

\* the most material one side can have on the full board: the queen and
\* eight pawns promoted to queens, two rooks, two bishops, two knights
FullBoardMaterial ==
  9 * PIECE_VALUE.q + 2 * PIECE_VALUE.r + 2 * PIECE_VALUE.b + 2 * PIECE_VALUE.n

\* C20: on every position reached, promotions included, the material score
\* is in absolute value strictly below the checkmate score of 1,000,000
\* points, as is the most one side can have on the full board; every
\* minimax score of a root move is a checkmate score or lies strictly
\* between the two, so a checkmate outranks every leaf that is none.
C20_MaterialBelowMate ==
  /\ Abs(evaluateMaterial(sGame)) < 1000000 * 1000
  /\ FullBoardMaterial < 1000000 * 1000
  /\ sRun.kind = "pick"
       => \A i \in 1..Len(sRun.scored) : MateOrBelow(sRun.scored[i].mm)

\* a call on a position with a promoted queen on the board and a side a
\* queen for a pawn ahead, in which one root move has the checkmate score and
\* another a material score other than zero
C20_Witness ==
  /\ sRun.kind = "pick"
  /\ \E s \in Squares : sGame.board[s] # Empty /\ sGame.board[s].type = "q"
  /\ Abs(evaluateMaterial(sGame)) >= PIECE_VALUE.q - PIECE_VALUE.p
  /\ \E i, j \in 1..Len(sRun.scored) :
       /\ sRun.scored[i].mm = MateScore
       /\ sRun.scored[j].mm # 0
       /\ Abs(sRun.scored[j].mm) < MateScore

\* ---------------------------------------------------------------------------
\* Properties of the application
\* ---------------------------------------------------------------------------
\* the plies doUndo takes back in mode m
UndoPlies(m) == IF m = GAME_MODES.AI THEN 2 ELSE 1

\* p is a prefix of s
IsPrefix(p, s) == Len(p) <= Len(s) /\ p = SubSeq(s, 1, Len(p))

\* C3: after an accepted undo in AI mode the side to move is the human's
\* colour, never the AI's, whatever the history and the status before.
C3_UndoGivesHumanTheMove ==
  (lastOp = Op("undo", TRUE) /\ mode = GAME_MODES.AI) => Turn(game) # aiSide

\* C4: doUndo removes min(2, n) plies from the end of the history in AI mode
\* and min(1, n) in two-player mode, n being the length before; the plies
\* that stay are unchanged.
C4_UndoRemoves ==
  [][lastOp' = Op("undo", TRUE)
       => game'.history
          = SubSeq(game.history, 1,
                   Len(game.history) - Min(UndoPlies(mode), Len(game.history)))]_vars

\* an undo in AI mode that left one ply of three
C4_Witness ==
  /\ lastOp = Op("undo", TRUE)
  /\ mode = GAME_MODES.AI
  /\ Len(game.history) = 1

\* C5: after any sequence of human moves, AI moves, promotion choices, undos
\* and resets, the game is the one obtained by replaying its move history
\* from the initial position; and an undo leaves a prefix of the history
\* before it, with the position of replaying that prefix.
C5_PositionIsReplayOfHistory ==
  /\ [](LoadPgn(Pgn(game)) = game)
  /\ [][lastOp'.op = "undo"
          => /\ IsPrefix(game'.history, game.history)
             /\ game' = LoadPgn(SubSeq(Pgn(game), 1, Len(game'.history)))]_vars

\* an undo took back a capture: the game is one ply short of a history in
\* which the next move captured, and it is the replay of its own history
C5_Witness ==
  /\ lastOp = Op("undo", TRUE)
  /\ game.history # <<>>
  /\ \E t \in Squares : Get(game, t).color = Other(Turn(game))
                         /\ \E f \in Squares : MoveBy(game, f, t, None).ok
  /\ LoadPgn(Pgn(game)) = game

\* among the legal moves `moves`, those from `from` to `to` are a promotion:
\* more than one, or one that carries a promotion
PromotionPair(moves, from, to) ==
  \E ms \in {SelectSeq(moves, LAMBDA m : m.from = from /\ m.to = to)} :
    ms # <<>> /\ (Len(ms) > 1 \/ ms[1].promotion # None)

\* a step that is a click on a promotion destination of the selected square
\* leaves the game as it is and sets pendingPromotion
ClickOnPromotionPends(moves) ==
  \A square \in Squares :
    (PromotionPair(moves, selected, square) /\ onSquareClick(square))
    => /\ game' = game
       /\ pendingPromotion' = [from |-> selected, to |-> square]

\* the last ply of g
LastPly(g) == g.history[Len(g.history)].move

\* C6: a click that reaches tryMove with a promotion destination leaves the
\* game (position, history) unchanged and sets pendingPromotion to
\* {from, to}; choosing a piece kind then commits exactly one new ply, the
\* pending pair's move with that promotion, and clears pendingPromotion.
C6_PromotionGating ==
  [][/\ ( /\ ~gameOver /\ ~isAiTurn /\ ~isAiThinking
          /\ pendingPromotion = NoPending
          /\ selected # NoSquare )
          => ClickOnPromotionPends(Moves(game))
     /\ \A i \in 1..4 :
          choosePromotion(PromotionKinds[i])
          => /\ Len(game'.history) = Len(game.history) + 1
             /\ Undo(game') = game
             /\ LastPly(game').from = pendingPromotion.from
             /\ LastPly(game').to = pendingPromotion.to
             /\ LastPly(game').promotion = PromotionKinds[i]
             /\ Get(game', pendingPromotion.to) = Piece(Turn(game), PromotionKinds[i])
             /\ pendingPromotion' = NoPending]_vars

\* a promotion to a knight was committed from the dialog
C6_Witness ==
  /\ lastOp = Op("promote", TRUE)
  /\ LastPly(game).promotion = "n"
  /\ pendingPromotion = NoPending

\* C7: while a promotion choice is outstanding no action adds a ply to the
\* history except the promotion move of the pending pair; and whatever else
\* changes the game, the mode or the AI side clears the pending marker.
C7_NoMoveWhilePromotionPending ==
  [][pendingPromotion # NoPending
       => /\ Len(game'.history) > Len(game.history)
               => /\ lastOp' = Op("promote", TRUE)
                  /\ Undo(game') = game
                  /\ LastPly(game').from = pendingPromotion.from
                  /\ LastPly(game').to = pendingPromotion.to
          /\ (game' # game \/ mode' # mode \/ aiSide' # aiSide)
               => pendingPromotion' = NoPending]_vars

\* a board click was ignored while a promotion choice was outstanding
C7_Witness ==
  /\ pendingPromotion # NoPending
  /\ lastOp = Op("click", FALSE)
  /\ ~gameOver /\ ~isAiTurn /\ ~isAiThinking

\* C8: the move an AI selection gives is committed only to the game it was
\* computed from: the game after the AI's move is the game before it with one
\* ply more, and a selection still pending after any step was scheduled for
\* the game as it now is.
C8_AiMoveOnItsOwnGame ==
  [][/\ lastOp' = Op("ai", TRUE)
          => game'.history # <<>> /\ Undo(game') = game
     /\ \A t \in timers' : isMounted' => t.game = game']_vars

\* the AI's answer to a human move was committed
C8_Witness ==
  /\ lastOp = Op("ai", TRUE)
  /\ Len(game.history) >= 2
  /\ LastPly(game).color = aiSide
  /\ timers = {}

\* C9: at most one AI timer is pending at any time; after a change of the
\* game, of the game-over flag or of the AI-turn flag the only timer that can
\* be pending is the one scheduled after the change, for the changed game.
C9_OneTimerPending ==
  [][/\ Cardinality(timers') <= 1
     /\ (game' # game \/ gameOver' # gameOver
         \/ isAiTurnOf(game', mode', aiSide') # isAiTurn)
          => timers' \subseteq {[id |-> cleanup', game |-> game']}]_vars

\* a timer is pending for the AI to open the game after a reset
C9_Witness ==
  /\ Cardinality(timers) = 1
  /\ lastOp = Op("reset", TRUE)
  /\ isAiTurn

\* C10: reset and undo are never refused: from every reachable state, also
\* while an AI selection is pending, doReset yields the initial position with
\* an empty history, no selection and no pending promotion, and doUndo on a
\* non-empty history shortens the history.  As stated:
C10_NeverRefused ==
  [][/\ lastOp'.op = "reset"
          => /\ game' = createNewGame
             /\ selected' = NoSquare
             /\ pendingPromotion' = NoPending
     /\ (lastOp'.op = "undo" /\ game.history # <<>>)
          => Len(game'.history) < Len(game.history)]_vars

\* C10, amended: while the AI is thinking (a selection is pending) reset and
\* undo are refused and leave the game, the selection and the pending
\* promotion as they are; otherwise doReset yields the initial position with
\* an empty history, no selection and no pending promotion, and doUndo on a
\* non-empty history shortens the history.
C10_RefusedOnlyWhileThinking ==
  [][/\ (lastOp'.op \in {"reset", "undo"} /\ isAiThinking)
          => /\ ~lastOp'.ok
             /\ game' = game
             /\ selected' = selected
             /\ pendingPromotion' = pendingPromotion
     /\ (lastOp'.op = "reset" /\ ~isAiThinking)
          => /\ lastOp'.ok
             /\ game' = createNewGame
             /\ game'.history = <<>>
             /\ selected' = NoSquare
             /\ pendingPromotion' = NoPending
     /\ (lastOp'.op = "undo" /\ ~isAiThinking /\ game.history # <<>>)
          => /\ lastOp'.ok
             /\ Len(game'.history) < Len(game.history)]_vars

\* an undo was refused on a non-empty history while the AI was thinking
C10_Witness ==
  /\ lastOp = Op("undo", FALSE)
  /\ isAiThinking
  /\ timers # {}
  /\ game.history # <<>>

\* a step that is a click which takes tryMove to a pair with no legal move
\* leaves the game, the pending promotion and the last move as they are, and
\* raises nothing
ClickOnIllegalKeeps(moves) ==
  \A square \in Squares :
    ( /\ square # selected
      /\ ~(Get(game, square) # Empty /\ Get(game, square).color = Turn(game))
      /\ SelectSeq(moves, LAMBDA m : m.from = selected /\ m.to = square) = <<>>
      /\ onSquareClick(square) )
    => /\ game' = game
       /\ pendingPromotion' = pendingPromotion
       /\ lastMove' = lastMove
       /\ ~lastOp'.raised

AiCommitted == lastOp = Op("ai", TRUE) /\ ~isAiThinking

\* C21: in AI mode, whenever it is the AI's turn in a game not over, the AI's
\* move is eventually committed and isAiThinking false again, as long as the
\* component stays mounted (the scheduled timer fires); the step that commits
\* it appends exactly one ply, played by the AI's colour, to the history.
C21_AiMoveIsCommitted ==
  /\ (isMounted /\ isAiTurn /\ ~gameOver) ~> (~isMounted \/ AiCommitted)
  /\ [][lastOp' = Op("ai", TRUE)
          => /\ Len(game'.history) = Len(game.history) + 1
             /\ Undo(game') = game
             /\ LastPly(game').color = aiSide
             /\ ~isAiThinking']_vars

\* the AI, playing White, has opened the game and thinks no longer
C21_Witness ==
  /\ isMounted
  /\ AiCommitted
  /\ mode = GAME_MODES.AI
  /\ aiSide = AI_SIDES.WHITE
  /\ Len(game.history) = 1
  /\ LastPly(game).color = aiSide

\* C22: in the mounted component isAiThinking is true only while a timer of the
\* AI-move effect is pending (the one its cleanup would clear, scheduled for
\* the current game): no sequence of moves, undos, resets, mode switches and
\* AI-side switches reaches a state where isAiThinking is true and no timer is
\* pending.
C22_ThinkingHasTimer ==
  isMounted /\ isAiThinking
    => /\ timers # {}
       /\ \E t \in timers : t.id = cleanup /\ t.game = game

\* the AI thinks, with its timer pending, after the user took the other side
C22_Witness ==
  /\ isMounted
  /\ isAiThinking
  /\ timers # {}
  /\ lastOp = Op("setAiSide", TRUE)

\* the events of the user on the game: a board click (one that plays a move
\* ends as "move"), a promotion choice, Undo, Reset and the two selects
HumanOps == {"click", "move", "promote", "undo", "reset", "setMode", "setAiSide"}

\* C23: while an AI selection is pending (isAiThinking true) every action of
\* the user on the game is refused: board clicks, undo, reset and changes of
\* the mode or the AI's side leave the position, the history, the selection,
\* the pending promotion, the mode and the AI's side as they are, and
\* isAiThinking stays true until the timer's callback has run; and in AI mode
\* no click or promotion choice plays a ply for the AI's colour.
C23_RefusedWhileThinking ==
  /\ [][isMounted /\ isAiThinking /\ lastOp'.op \in HumanOps
          => /\ ~lastOp'.ok
             /\ UNCHANGED <<game, selected, pendingPromotion, mode, aiSide>>
             /\ isAiThinking']_vars
  /\ [][mode = GAME_MODES.AI /\ lastOp'.op \in {"move", "promote"} /\ lastOp'.ok
          => LastPly(game').color # aiSide]_vars

\* a board click was refused while the AI was thinking about its reply
C23_Witness ==
  /\ isMounted
  /\ isAiThinking
  /\ lastOp = Op("click", FALSE)
  /\ game.history # <<>>

\* C24: once the position is game over (checkmate or a draw) no board click,
\* promotion choice or move of the AI appends a ply to the history: a step
\* from a game-over state that changes the game is an undo or a reset, and a
\* board click there is refused.
C24_GameOverIsFinal ==
  /\ [](gameOver = IsGameOver(game))
  /\ [](gameOver => pendingPromotion = NoPending /\ (isMounted => timers = {}))
  /\ [][gameOver
          => /\ game' # game => lastOp' \in {Op("undo", TRUE), Op("reset", TRUE)}
             /\ Len(game'.history) <= Len(game.history)
             /\ lastOp'.op \in {"click", "move", "promote", "ai"} => ~lastOp'.ok]_vars

\* a board click was refused on a game drawn with legal moves left, on the
\* user's own turn
C24_Witness ==
  /\ isMounted
  /\ gameOver
  /\ Moves(game) # <<>>
  /\ ~isAiTurn
  /\ ~isAiThinking
  /\ lastOp = Op("click", FALSE)

\* C25: for every position and depth, minimax with the full window from
\* White's perspective is the negation of minimax with the full window from
\* Black's perspective on the same position.
C25_PerspectivesAreOpposite ==
  sRun.kind = "both" => sRun.value = -sRun.mirror /\ sGame = sRun.before

\* both perspectives searched two plies deep from a position in play, one
\* side ahead
C25_Witness ==
  /\ sRun.kind = "both"
  /\ sRun.depth = MaxDepth
  /\ ~IsGameOver(sRun.before)
  /\ sRun.value > 0
  /\ sRun.mirror < 0
====
